---- MODULE Spec2Model ----
(***************************************************************************)
(* Model of dir_treer.py: the TreeItem hierarchy built by                  *)
(* build_tree_structure, the click handlers of DirectoryTreeGUI (checkbox  *)
(* propagation, expand/collapse), the canvas layout pass draw_tree_item,   *)
(* and the Copy export build_text_for_checked.                             *)
(*                                                                         *)
(* Text is a sequence of Unicode code points, so that str.lower(), string  *)
(* comparison, str.startswith(), "\n".join() and str.strip() are computed  *)
(* as Python computes them.  The platform is POSIX (os.name != "nt",       *)
(* platform.system() != "Windows").                                        *)
(***************************************************************************)
EXTENDS Integers, Sequences, FiniteSets, TLC

VARIABLES
    io_error,          \* directories whose listing now raises an OSError other than PermissionError
    show_hidden_var,   \* tk.BooleanVar behind "Include hidden files"
    exclude_hidden,    \* self.exclude_hidden
    children,          \* TreeItem.children, per item of the current tree
    parent,            \* TreeItem.parent (NoParent for the root)
    is_dir,            \* TreeItem.is_dir
    checked,           \* TreeItem.checked
    expanded,          \* TreeItem.expanded (TRUE, FALSE or None)
    canvas,            \* the text items drawn on self.canvas, in creation order
    item_id_to_tree_item_check,   \* tag -> item dictionary of the brackets
    item_id_to_tree_item_expand,  \* tag -> item dictionary of arrows and folder names
    current_y,         \* self.current_y
    max_x,             \* self.max_x
    copied_label,      \* text of self.copied_label
    clipboard,         \* the system clipboard
    timers,            \* number of pending self.after(5000, _hide_copied_label) callbacks
    last_event         \* the event handled last (history of the run, not program state)

vars == <<io_error, show_hidden_var, exclude_hidden, children, parent, is_dir, checked,
          expanded, canvas, item_id_to_tree_item_check,
          item_id_to_tree_item_expand, current_y, max_x, copied_label,
          clipboard, timers, last_event>>

treeVars == <<children, parent, is_dir>>
drawVars == <<canvas, item_id_to_tree_item_check, item_id_to_tree_item_expand,
              current_y, max_x>>
copyVars == <<copied_label, clipboard, timers>>

-----------------------------------------------------------------------------
(* Bounds *)

\* Cap on the number of pending 5-second timers.
MaxTimers == 2

-----------------------------------------------------------------------------
(* Text *)

ROW_HEIGHT == 18

\* Width in pixels that canvas.bbox measures per character of the monospaced font.
CHAR_WIDTH == 7

SPACE == 32
NEWLINE == 10
DOT == 46
SLASH == 47

None == "None"
NoParent == -1

CONNECTOR_LAST == <<9492, 9472, 9472>>                \* "└──"
CONNECTOR_CONT == <<9500, 9472, 9472>>                \* "├──"
PREFIX_LAST == <<SPACE, SPACE, SPACE, SPACE>>         \* "    "
PREFIX_CONT == <<9474, SPACE, SPACE, SPACE>>          \* "│   "
BRACKET_OPEN == <<91>>                                \* "["
BRACKET_CLOSE == <<93>>                               \* "]"
BULLET == <<8226>>                                    \* "•"
ARROW_EXPANDED == <<9660>>                            \* "▼"
ARROW_COLLAPSED == <<9658>>                           \* "►"
COPIED == "Copied!"
NOTHING_TO_COPY == "Nothing to copy"

\* str.lower() on one code point (ASCII range).
LowerChar(c) == IF c >= 65 /\ c <= 90 THEN c + 32 ELSE c

\* str.lower()
Lower(s) == [i \in 1..Len(s) |-> LowerChar(s[i])]

\* Python's s < t on strings: lexicographic by code point.
RECURSIVE StrLess(_, _)
StrLess(s, t) ==
    IF t = <<>> THEN FALSE
    ELSE IF s = <<>> THEN TRUE
    ELSE IF Head(s) # Head(t) THEN Head(s) < Head(t)
    ELSE StrLess(Tail(s), Tail(t))

\* Characters removed by str.strip() (ASCII whitespace).
IsWhitespace(c) == c \in {9, 10, 11, 12, 13, 28, 29, 30, 31, 32}

RECURSIVE LStrip(_)
LStrip(s) == IF s # <<>> /\ IsWhitespace(Head(s)) THEN LStrip(Tail(s)) ELSE s

RECURSIVE RStrip(_)
RStrip(s) ==
    IF s # <<>> /\ IsWhitespace(s[Len(s)]) THEN RStrip(SubSeq(s, 1, Len(s) - 1)) ELSE s

\* str.strip()
Strip(s) == RStrip(LStrip(s))

\* "\n".join(lines)
RECURSIVE Join(_)
Join(lines) ==
    IF lines = <<>> THEN <<>>
    ELSE IF Len(lines) = 1 THEN lines[1]
    ELSE lines[1] \o <<NEWLINE>> \o Join(Tail(lines))

Range(s) == {s[i] : i \in 1..Len(s)}

-----------------------------------------------------------------------------
(* The scanned filesystem: the directory given on the command line.        *)
(*                                                                         *)
(*   /project/            0                                                *)
(*       sock             1   (socket: neither is_dir() nor is_file())     *)
(*       readme.md        2                                                *)
(*       src/             3                                                *)
(*           B.py         4                                                *)
(*           a.py         5                                                *)
(*       .git/            6   (hidden)                                     *)
(*           hooks/       7   (iterdir() raises PermissionError)           *)
(*               secret   8                                                *)

Entries == 0..8
RootEntry == 0

EntryName ==
    [e \in Entries |->
        CASE e = 0 -> <<112, 114, 111, 106, 101, 99, 116>>           \* project
          [] e = 1 -> <<115, 111, 99, 107>>                          \* sock
          [] e = 2 -> <<114, 101, 97, 100, 109, 101, 46, 109, 100>>  \* readme.md
          [] e = 3 -> <<115, 114, 99>>                               \* src
          [] e = 4 -> <<66, 46, 112, 121>>                           \* B.py
          [] e = 5 -> <<97, 46, 112, 121>>                           \* a.py
          [] e = 6 -> <<DOT, 103, 105, 116>>                         \* .git
          [] e = 7 -> <<104, 111, 111, 107, 115>>                    \* hooks
          [] e = 8 -> <<115, 101, 99, 114, 101, 116>>]               \* secret

EntryParent ==
    [e \in Entries |->
        CASE e = 0 -> NoParent
          [] e \in {1, 2, 3, 6} -> 0
          [] e \in {4, 5} -> 3
          [] e = 7 -> 6
          [] e = 8 -> 7]

EntryKind ==
    [e \in Entries |->
        CASE e \in {0, 3, 6, 7} -> "dir"
          [] e = 1 -> "other"
          [] OTHER -> "file"]

\* Directories whose listing raises PermissionError.
Unreadable == {7}

\* str(directory.resolve()) of the scanned directory: "/project"
ResolvedRootPath == <<SLASH>> \o EntryName[RootEntry]

\* Path.is_dir(), Path.is_file()
PathIsDir(e) == EntryKind[e] = "dir"
PathIsFile(e) == EntryKind[e] = "file"

\* list(directory.iterdir()): the entries of a directory, in the order the
\* operating system returns them (here: ascending entry number).
RECURSIVE SetToSeq(_)
SetToSeq(S) ==
    IF S = {} THEN <<>>
    ELSE LET m == CHOOSE x \in S : \A y \in S : x <= y
         IN <<m>> \o SetToSeq(S \ {m})

Iterdir(d) == SetToSeq({e \in Entries : EntryParent[e] = d})

\* is_hidden(path) on POSIX: path.name.startswith(".")
is_hidden(e) == Len(EntryName[e]) >= 1 /\ EntryName[e][1] = DOT

\* Variant of the sort key without lower(): a case-sensitive sort.
SortKeyCaseSensitive(e) == EntryName[e]

\* key=lambda p: p.name.lower()
SortKey(e) == Lower(EntryName[e])

\* list.sort(key=...): stable, ascending.  Insert x behind every element whose
\* key is not greater than x's key.
RECURSIVE InsertSorted(_, _)
InsertSorted(x, s) ==
    IF s = <<>> THEN <<x>>
    ELSE IF StrLess(SortKey(x), SortKey(Head(s))) THEN <<x>> \o s
    ELSE <<Head(s)>> \o InsertSorted(x, Tail(s))

RECURSIVE SortByName(_)
SortByName(s) ==
    IF s = <<>> THEN <<>>
    ELSE InsertSorted(s[Len(s)], SortByName(SubSeq(s, 1, Len(s) - 1)))

\* Variant of the listing in which a PermissionError does not end the listing
\* of the directory: its entries become children all the same.
ScanChildrenListingUnreadable(d, xh) ==
    IF ~PathIsDir(d) THEN <<>>
    ELSE LET entries == Iterdir(d)
             dirs == SortByName(SelectSeq(entries, PathIsDir))
             files == SortByName(SelectSeq(entries, PathIsFile))
             sorted_entries == dirs \o files
         IN IF xh THEN SelectSeq(sorted_entries, LAMBDA e : ~is_hidden(e))
                  ELSE sorted_entries

\* The children that build_tree_structure gives the item of directory entry d.
ScanChildren(d, xh) ==
    IF ~PathIsDir(d) THEN <<>>
    ELSE IF d \in Unreadable THEN <<>>
    ELSE LET entries == Iterdir(d)
             dirs == SortByName(SelectSeq(entries, PathIsDir))
             files == SortByName(SelectSeq(entries, PathIsFile))
             sorted_entries == dirs \o files
         IN IF xh THEN SelectSeq(sorted_entries, LAMBDA e : ~is_hidden(e))
                  ELSE sorted_entries

\* The entries for which build_tree_structure(directory, xh) creates a TreeItem.
RECURSIVE ScanItems(_, _)
ScanItems(d, xh) ==
    {d} \cup UNION {ScanItems(c, xh) : c \in Range(ScanChildren(d, xh))}

\* build_tree_structure(self.directory, xh): the fields of every TreeItem.
build_tree_structure(xh) ==
    LET its == ScanItems(RootEntry, xh)
    IN [children |-> [n \in its |-> ScanChildren(n, xh)],
        parent   |-> [n \in its |-> IF n = RootEntry THEN NoParent ELSE EntryParent[n]],
        is_dir   |-> [n \in its |-> PathIsDir(n)],
        checked  |-> [n \in its |-> TRUE],
        expanded |-> [n \in its |-> IF PathIsDir(n) THEN FALSE ELSE None]]

\* TreeItem.name
ItemName(t, n) == IF t.is_dir[n] THEN EntryName[n] \o <<SLASH>> ELSE EntryName[n]

-----------------------------------------------------------------------------
(* The tree of the GUI and the layout pass *)

\* The TreeItem objects reachable from self.root_item, as one record.
Tree ==
    [children |-> children, parent |-> parent, is_dir |-> is_dir,
     checked |-> checked, expanded |-> expanded]

Items == DOMAIN checked

\* f"check_{id(item)}" and f"expand_{id(item)}"
CheckTag(n) == [kind |-> "check", id |-> n]
ExpandTag(n) == [kind |-> "expand", id |-> n]

\* One canvas text item, as created by canvas.create_text and tagged by
\* canvas.itemconfig.
TextItem(x, y, text, fill, tags) ==
    [x |-> x, y |-> y, text |-> text, fill |-> fill, tags |-> tags]

\* canvas.bbox(id)[2]: the right edge of a text item anchored "nw" at x.
BboxRight(x, text) == x + CHAR_WIDTH * Len(text)

\* The drawing state that redraw_canvas and refresh_tree reset.
EmptyDrawing ==
    [canvas |-> <<>>, check |-> <<>>, expand |-> <<>>, current_y |-> 0, max_x |-> 0]

\* dict[key] = value
DictSet(d, k, v) == [x \in (DOMAIN d) \cup {k} |-> IF x = k THEN v ELSE d[x]]

\* Steps 1-5 of draw_tree_item: the line of one item, drawn at d.current_y.
DrawRow(t, d, item, prefix, is_last) ==
    LET connector == IF is_last THEN CONNECTOR_LAST ELSE CONNECTOR_CONT
        y == d.current_y
        x0 == 10
        bracket_tag == CheckTag(item)
        x1 == BboxRight(x0, BRACKET_OPEN) + 1
        dot_color == IF t.checked[item] THEN "lightblue" ELSE "black"
        x2 == BboxRight(x1, BULLET) + 1
        x3 == BboxRight(x2, BRACKET_CLOSE) + 1
        x4 == BboxRight(x3, <<SPACE>>)
        arrow_str == IF t.is_dir[item]
                     THEN (IF t.expanded[item] = TRUE THEN ARROW_EXPANDED
                                                      ELSE ARROW_COLLAPSED)
                     ELSE <<>>
        x5 == BboxRight(x4, arrow_str) + 1
        x6 == IF arrow_str # <<>> THEN BboxRight(x5, <<SPACE>>) ELSE x4
        arrow_items ==
            IF arrow_str # <<>>
            THEN << TextItem(x4, y, arrow_str, "white", <<ExpandTag(item)>>),
                    TextItem(x5, y, <<SPACE>>, "white", <<>>) >>
            ELSE <<>>
        connector_str == prefix \o connector
        x7 == BboxRight(x6, connector_str) + 1
        x8 == BboxRight(x7, <<SPACE>>)
        name_color == IF t.is_dir[item] THEN "yellow" ELSE "white"
        name_tags == IF t.is_dir[item] THEN <<ExpandTag(item)>> ELSE <<>>
        x9 == BboxRight(x8, ItemName(t, item))
    IN [canvas |->
            d.canvas
            \o << TextItem(x0, y, BRACKET_OPEN, "white", <<bracket_tag>>),
                  TextItem(x1, y, BULLET, dot_color, <<bracket_tag>>),
                  TextItem(x2, y, BRACKET_CLOSE, "white", <<bracket_tag>>),
                  TextItem(x3, y, <<SPACE>>, "white", <<>>) >>
            \o arrow_items
            \o << TextItem(x6, y, connector_str, "white", <<>>),
                  TextItem(x7, y, <<SPACE>>, "white", <<>>),
                  TextItem(x8, y, ItemName(t, item), name_color, name_tags) >>,
        check |-> DictSet(d.check, bracket_tag, item),
        expand |-> IF t.is_dir[item] THEN DictSet(d.expand, ExpandTag(item), item)
                                     ELSE d.expand,
        current_y |-> d.current_y + ROW_HEIGHT,
        max_x |-> IF x9 > d.max_x THEN x9 ELSE d.max_x]

RECURSIVE draw_tree_item(_, _, _, _, _)
RECURSIVE DrawChildren(_, _, _, _, _, _)

\* Variant of the loop over item.children that takes a child for the last one
\* when no checked child follows it, as the export does.
RECURSIVE DrawChildrenCheckedLast(_, _, _, _, _, _)
DrawChildrenCheckedLast(t, d, item, i, prefix, is_last) ==
    LET child_count == Len(t.children[item])
    IN IF i > child_count THEN d
       ELSE LET child == t.children[item][i]
                child_is_last == \A j \in i + 1..child_count : ~t.checked[t.children[item][j]]
                deeper_prefix == prefix \o (IF is_last THEN PREFIX_LAST ELSE PREFIX_CONT)
            IN DrawChildrenCheckedLast(t,
                   draw_tree_item(t, d, child, deeper_prefix, child_is_last),
                   item, i + 1, prefix, is_last)

\* Variant of the loop over item.children that stops before the last child.
RECURSIVE DrawChildrenButLast(_, _, _, _, _, _)
DrawChildrenButLast(t, d, item, i, prefix, is_last) ==
    LET child_count == Len(t.children[item])
    IN IF i > child_count - 1 THEN d
       ELSE LET child == t.children[item][i]
                child_is_last == (i = child_count)
                deeper_prefix == prefix \o (IF is_last THEN PREFIX_LAST ELSE PREFIX_CONT)
            IN DrawChildrenButLast(t, draw_tree_item(t, d, child, deeper_prefix, child_is_last),
                                   item, i + 1, prefix, is_last)

\* Step 6 of draw_tree_item: the loop over item.children, from index i on.
DrawChildren(t, d, item, i, prefix, is_last) ==
    LET child_count == Len(t.children[item])
    IN IF i > child_count THEN d
       ELSE LET child == t.children[item][i]
                child_is_last == (i = child_count)
                deeper_prefix == prefix \o (IF is_last THEN PREFIX_LAST ELSE PREFIX_CONT)
            IN DrawChildren(t, draw_tree_item(t, d, child, deeper_prefix, child_is_last),
                            item, i + 1, prefix, is_last)

\* Variant of draw_tree_item that draws the children of collapsed folders too.
draw_tree_item_ignoring_expanded(t, d, item, prefix, is_last) ==
    LET row == DrawRow(t, d, item, prefix, is_last)
    IN IF t.is_dir[item]
       THEN DrawChildren(t, row, item, 1, prefix, is_last)
       ELSE row

draw_tree_item(t, d, item, prefix, is_last) ==
    LET row == DrawRow(t, d, item, prefix, is_last)
    IN IF t.is_dir[item] /\ t.expanded[item] = TRUE
       THEN DrawChildren(t, row, item, 1, prefix, is_last)
       ELSE row

\* redraw_canvas: delete everything, clear both dictionaries, draw from the root.
redraw_canvas(t) == draw_tree_item(t, EmptyDrawing, RootEntry, <<>>, TRUE)

\* Variant of the assignment in which the two dictionaries are not cleared
\* before the drawing: the old entries stay beside the new ones.
DrawnKeepingDicts(d) ==
    /\ canvas' = d.canvas
    /\ item_id_to_tree_item_check' =
           [k \in DOMAIN item_id_to_tree_item_check \cup DOMAIN d.check |->
               IF k \in DOMAIN d.check THEN d.check[k] ELSE item_id_to_tree_item_check[k]]
    /\ item_id_to_tree_item_expand' =
           [k \in DOMAIN item_id_to_tree_item_expand \cup DOMAIN d.expand |->
               IF k \in DOMAIN d.expand THEN d.expand[k] ELSE item_id_to_tree_item_expand[k]]
    /\ current_y' = d.current_y
    /\ max_x' = d.max_x

\* The assignment of a finished drawing to the canvas state.
Drawn(d) ==
    /\ canvas' = d.canvas
    /\ item_id_to_tree_item_check' = d.check
    /\ item_id_to_tree_item_expand' = d.expand
    /\ current_y' = d.current_y
    /\ max_x' = d.max_x

-----------------------------------------------------------------------------
(* Checkbox propagation *)

RECURSIVE recursive_check_down(_, _, _)
RECURSIVE CheckDownFrom(_, _, _, _)

\* The loop of recursive_check_down over folder_item.children, from index i on.
CheckDownFrom(t, folder_item, i, new_state) ==
    IF i > Len(t.children[folder_item]) THEN t
    ELSE LET child == t.children[folder_item][i]
             t1 == [t EXCEPT !.checked[child] = new_state]
             t2 == IF t1.is_dir[child] THEN recursive_check_down(t1, child, new_state)
                                       ELSE t1
         IN CheckDownFrom(t2, folder_item, i + 1, new_state)

\* Variant of recursive_check_down that sets the direct children only.
recursive_check_down_shallow(t, folder_item, new_state) ==
    [t EXCEPT !.checked = [n \in DOMAIN t.checked |->
                              IF n \in Range(t.children[folder_item]) THEN new_state
                              ELSE t.checked[n]]]

recursive_check_down(t, folder_item, new_state) ==
    CheckDownFrom(t, folder_item, 1, new_state)

RECURSIVE recursive_check_up(_, _)
recursive_check_up(t, item) ==
    LET p == t.parent[item]
    IN IF p # NoParent /\ t.is_dir[p] /\ ~t.checked[p]
       THEN recursive_check_up([t EXCEPT !.checked[p] = TRUE], p)
       ELSE t

\* Variant of the checkbox branch in which checking a file checks the whole
\* folder it lies in.
ToggleCheckedCheckingSiblings(t, item) ==
    LET new_state == ~t.checked[item]
        t1 == [t EXCEPT !.checked[item] = new_state]
    IN IF t1.is_dir[item] THEN recursive_check_down(t1, item, new_state)
       ELSE IF new_state
            THEN (IF t1.parent[item] # NoParent
                  THEN recursive_check_down(recursive_check_up(t1, item), t1.parent[item], TRUE)
                  ELSE t1)
       ELSE t1

\* Variant of the checkbox branch in which un-checking an item also un-checks
\* its parent.
ToggleCheckedClearingParent(t, item) ==
    LET new_state == ~t.checked[item]
        t1 == [t EXCEPT !.checked[item] = new_state]
        t2 == IF t1.is_dir[item] THEN recursive_check_down(t1, item, new_state)
              ELSE IF new_state THEN recursive_check_up(t1, item)
              ELSE t1
    IN IF ~new_state /\ t.parent[item] # NoParent
       THEN [t2 EXCEPT !.checked[t.parent[item]] = FALSE]
       ELSE t2

\* The checkbox branch of on_canvas_click, up to the redraw.
ToggleChecked(t, item) ==
    LET new_state == ~t.checked[item]
        t1 == [t EXCEPT !.checked[item] = new_state]
    IN IF t1.is_dir[item] THEN recursive_check_down(t1, item, new_state)
       ELSE IF new_state THEN recursive_check_up(t1, item)
       ELSE t1

-----------------------------------------------------------------------------
(* Export of the checked items *)

RECURSIVE build_text_for_checked(_, _, _, _, _)
RECURSIVE ExportChildren(_, _, _, _, _, _, _)
RECURSIVE ExportChildrenBarPrefix(_, _, _, _, _, _, _)

\* Variant of the export loop that always continues the prefix with a bar.
ExportChildrenBarPrefix(t, lines, checked_children, i, item, prefix, is_last) ==
    LET cnt == Len(checked_children)
    IN IF i > cnt THEN lines
       ELSE LET child == checked_children[i]
                child_is_last == (i = cnt)
                deeper_prefix == prefix \o PREFIX_CONT
            IN ExportChildrenBarPrefix(t,
                   build_text_for_checked(t, lines, child, deeper_prefix, child_is_last),
                   checked_children, i + 1, item, prefix, is_last)

\* The loop of build_text_for_checked over checked_children, from index i on.
ExportChildren(t, lines, checked_children, i, item, prefix, is_last) ==
    LET cnt == Len(checked_children)
    IN IF i > cnt THEN lines
       ELSE LET child == checked_children[i]
                child_is_last == (i = cnt)
                deeper_prefix == prefix \o (IF is_last THEN PREFIX_LAST ELSE PREFIX_CONT)
            IN ExportChildren(t,
                   build_text_for_checked(t, lines, child, deeper_prefix, child_is_last),
                   checked_children, i + 1, item, prefix, is_last)

\* Variant of build_text_for_checked without the early return for an
\* unchecked item.
build_text_unguarded(t, lines, item, prefix, is_last) ==
    LET connector == IF is_last THEN CONNECTOR_LAST ELSE CONNECTOR_CONT
        line == IF t.parent[item] # NoParent
                THEN prefix \o connector \o <<SPACE>> \o ItemName(t, item)
                ELSE ResolvedRootPath \o (IF t.is_dir[item] THEN <<SLASH>> ELSE <<>>)
        checked_children == SelectSeq(t.children[item], LAMBDA c : t.checked[c])
    IN ExportChildren(t, Append(lines, [item |-> item, line |-> line]),
                      checked_children, 1, item, prefix, is_last)

\* Variant of build_text_for_checked that decides last/continuing by the
\* position among all children instead of among the checked ones.
build_text_positional(t, lines, item, prefix, is_last) ==
    IF ~t.checked[item] THEN lines
    ELSE LET p == t.parent[item]
             positional_last == p = NoParent \/ t.children[p][Len(t.children[p])] = item
             connector == IF positional_last THEN CONNECTOR_LAST ELSE CONNECTOR_CONT
             line == IF p # NoParent
                     THEN prefix \o connector \o <<SPACE>> \o ItemName(t, item)
                     ELSE ResolvedRootPath \o (IF t.is_dir[item] THEN <<SLASH>> ELSE <<>>)
             checked_children == SelectSeq(t.children[item], LAMBDA c : t.checked[c])
         IN ExportChildren(t, Append(lines, [item |-> item, line |-> line]),
                           checked_children, 1, item, prefix, positional_last)

\* lines is the list being appended to; every element records the line and
\* the item it was written for.
build_text_for_checked(t, lines, item, prefix, is_last) ==
    IF ~t.checked[item] THEN lines
    ELSE LET connector == IF is_last THEN CONNECTOR_LAST ELSE CONNECTOR_CONT
             line == IF t.parent[item] # NoParent
                     THEN prefix \o connector \o <<SPACE>> \o ItemName(t, item)
                     ELSE ResolvedRootPath \o (IF t.is_dir[item] THEN <<SLASH>> ELSE <<>>)
             checked_children == SelectSeq(t.children[item], LAMBDA c : t.checked[c])
         IN ExportChildren(t, Append(lines, [item |-> item, line |-> line]),
                           checked_children, 1, item, prefix, is_last)

\* The list that copy_to_clipboard builds.
ExportLines(t) == build_text_for_checked(t, <<>>, RootEntry, <<>>, TRUE)

LinesOf(emitted) == [i \in 1..Len(emitted) |-> emitted[i].line]

\* final_text of copy_to_clipboard
FinalText(t) == Strip(Join(LinesOf(ExportLines(t))))

-----------------------------------------------------------------------------
(* Initial state and the event handlers *)

\* The clipboard before the program first writes it: "old"
ClipboardBefore == <<111, 108, 100>>

\* build_tree_structure raises: iterdir() of a directory it reaches fails with
\* an OSError that "except PermissionError" does not catch.
ScanRaises(xh) == ScanItems(RootEntry, xh) \cap io_error # {}

\* Variant of refresh_tree that carries the checked and expanded values of the
\* previous tree over to the items that are still there.
RefreshTreeKeepingFlags(xh) ==
    IF ScanRaises(xh)
    THEN /\ copied_label' = ""
         /\ Drawn(EmptyDrawing)
         /\ UNCHANGED <<children, parent, is_dir, checked, expanded>>
    ELSE LET b == build_tree_structure(xh)
             k == [b EXCEPT
                     !.checked = [n \in DOMAIN b.checked |->
                                     IF n \in DOMAIN checked THEN checked[n] ELSE TRUE],
                     !.expanded = [n \in DOMAIN b.expanded |->
                                      IF n \in DOMAIN expanded THEN expanded[n]
                                      ELSE b.expanded[n]]]
             t == IF k.is_dir[RootEntry] THEN [k EXCEPT !.expanded[RootEntry] = TRUE] ELSE k
         IN /\ copied_label' = ""
            /\ children' = t.children
            /\ parent' = t.parent
            /\ is_dir' = t.is_dir
            /\ checked' = t.checked
            /\ expanded' = t.expanded
            /\ Drawn(redraw_canvas(t))

\* refresh_tree applied with the given setting of exclude_hidden.  When
\* build_tree_structure raises, the exception leaves refresh_tree after the
\* canvas and the dictionaries were cleared and before self.root_item is
\* assigned; tkinter reports it and the event loop goes on.
RefreshTree(xh) ==
    IF ScanRaises(xh)
    THEN /\ copied_label' = ""
         /\ Drawn(EmptyDrawing)
         /\ UNCHANGED <<children, parent, is_dir, checked, expanded>>
    ELSE LET b == build_tree_structure(xh)
             t == IF b.is_dir[RootEntry] THEN [b EXCEPT !.expanded[RootEntry] = TRUE] ELSE b
         IN /\ copied_label' = ""
            /\ children' = t.children
            /\ parent' = t.parent
            /\ is_dir' = t.is_dir
            /\ checked' = t.checked
            /\ expanded' = t.expanded
            /\ Drawn(redraw_canvas(t))

\* State after DirectoryTreeGUI.__init__, which ends with refresh_tree().
Init ==
    LET b == build_tree_structure(TRUE)
        t == IF b.is_dir[RootEntry] THEN [b EXCEPT !.expanded[RootEntry] = TRUE] ELSE b
        d == redraw_canvas(t)
    IN /\ io_error = {}
       /\ show_hidden_var = FALSE
       /\ exclude_hidden = TRUE
       /\ children = t.children
       /\ parent = t.parent
       /\ is_dir = t.is_dir
       /\ checked = t.checked
       /\ expanded = t.expanded
       /\ canvas = d.canvas
       /\ item_id_to_tree_item_check = d.check
       /\ item_id_to_tree_item_expand = d.expand
       /\ current_y = d.current_y
       /\ max_x = d.max_x
       /\ copied_label = ""
       /\ clipboard = ClipboardBefore
       /\ timers = 0
       /\ last_event = [op |-> "init", item |-> RootEntry, new_state |-> TRUE]

\* canvas.gettags(closest) for every canvas item that canvas.find_closest can
\* return: any item drawn on the canvas.
ClosestTags == {canvas[i].tags : i \in 1..Len(canvas)}

HasCheckTag(tags) ==
    \E k \in 1..Len(tags) :
        tags[k].kind = "check" /\ tags[k] \in DOMAIN item_id_to_tree_item_check

HasExpandTag(tags) ==
    \E k \in 1..Len(tags) :
        tags[k].kind = "expand" /\ tags[k] \in DOMAIN item_id_to_tree_item_expand

\* on_canvas_click when the closest canvas item is part of a bracket [•].
ClickCheckbox(tags) ==
    /\ HasCheckTag(tags)
    /\ LET item == item_id_to_tree_item_check[tags[1]]
           t == ToggleChecked(Tree, item)
       IN /\ checked' = t.checked
          /\ Drawn(redraw_canvas(t))
          /\ last_event' = [op |-> "check", item |-> item, new_state |-> ~checked[item]]
    /\ UNCHANGED <<io_error, show_hidden_var, exclude_hidden, treeVars, expanded, copyVars>>

\* Variant of the expand branch that gives the folder's sub-folders the same
\* expanded value.
ClickExpandWithSubfolders(tags) ==
    /\ ~HasCheckTag(tags)
    /\ HasExpandTag(tags)
    /\ LET item == item_id_to_tree_item_expand[tags[1]]
           t == [Tree EXCEPT !.expanded =
                    [n \in DOMAIN expanded |->
                        IF n = item \/ (n \in Range(children[item]) /\ is_dir[n])
                        THEN ~expanded[item] ELSE expanded[n]]]
       IN /\ expanded' = t.expanded
          /\ Drawn(redraw_canvas(t))
          /\ last_event' = [op |-> "expand", item |-> item, new_state |-> TRUE]
    /\ UNCHANGED <<io_error, show_hidden_var, exclude_hidden, treeVars, checked, copyVars>>

\* on_canvas_click when the closest canvas item is an arrow or a folder name.
ClickExpand(tags) ==
    /\ ~HasCheckTag(tags)
    /\ HasExpandTag(tags)
    /\ LET item == item_id_to_tree_item_expand[tags[1]]
       IN /\ IF is_dir[item]
             THEN LET t == [Tree EXCEPT !.expanded[item] = ~expanded[item]]
                  IN /\ expanded' = t.expanded
                     /\ Drawn(redraw_canvas(t))
             ELSE UNCHANGED <<expanded, drawVars>>
          /\ last_event' = [op |-> "expand", item |-> item, new_state |-> TRUE]
    /\ UNCHANGED <<io_error, show_hidden_var, exclude_hidden, treeVars, checked, copyVars>>

\* on_canvas_click when the closest canvas item carries no tag (a space, the
\* branch glyphs, a file name): neither loop finds anything.
ClickUntagged(tags) ==
    /\ ~HasCheckTag(tags)
    /\ ~HasExpandTag(tags)
    /\ last_event' = [op |-> "none", item |-> RootEntry, new_state |-> TRUE]
    /\ UNCHANGED <<io_error, show_hidden_var, exclude_hidden, treeVars, checked, expanded,
                   drawVars, copyVars>>

on_canvas_click ==
    \E tags \in ClosestTags : ClickCheckbox(tags) \/ ClickExpand(tags) \/ ClickUntagged(tags)

\* Variant of on_toggle_hidden without the "not": exclude_hidden follows the
\* checkbox instead of being its opposite.
on_toggle_hidden_following_box ==
    /\ show_hidden_var' = ~show_hidden_var
    /\ exclude_hidden' = show_hidden_var'
    /\ RefreshTree(exclude_hidden')
    /\ last_event' = [op |-> "toggle_hidden", item |-> RootEntry, new_state |-> TRUE]
    /\ UNCHANGED <<io_error, clipboard, timers>>

\* The Checkbutton flips its variable, then calls on_toggle_hidden.
on_toggle_hidden ==
    /\ show_hidden_var' = ~show_hidden_var
    /\ exclude_hidden' = ~show_hidden_var'
    /\ RefreshTree(exclude_hidden')
    /\ last_event' = [op |-> "toggle_hidden", item |-> RootEntry, new_state |-> TRUE]
    /\ UNCHANGED <<io_error, clipboard, timers>>

\* The Re-run button.
refresh_tree ==
    /\ RefreshTree(exclude_hidden)
    /\ last_event' = [op |-> "refresh", item |-> RootEntry, new_state |-> TRUE]
    /\ UNCHANGED <<io_error, show_hidden_var, exclude_hidden, clipboard, timers>>

\* The Copy button.
copy_to_clipboard ==
    /\ timers < MaxTimers
    /\ LET final_text == FinalText(Tree)
       IN IF final_text = <<>>
          THEN /\ copied_label' = NOTHING_TO_COPY
               /\ UNCHANGED clipboard
          ELSE /\ clipboard' = final_text
               /\ copied_label' = COPIED
    /\ timers' = timers + 1
    /\ last_event' = [op |-> "copy", item |-> RootEntry, new_state |-> TRUE]
    /\ UNCHANGED <<io_error, show_hidden_var, exclude_hidden, treeVars, checked, expanded, drawVars>>

\* A pending after(5000, ...) callback fires.
_hide_copied_label ==
    /\ timers > 0
    /\ timers' = timers - 1
    /\ copied_label' = ""
    /\ last_event' = [op |-> "timer", item |-> RootEntry, new_state |-> TRUE]
    /\ UNCHANGED <<io_error, show_hidden_var, exclude_hidden, treeVars, checked, expanded,
                   drawVars, clipboard>>

\* The tree, its layout and the rescans: every event but Copy.
Next ==
    \/ on_canvas_click
    \/ on_toggle_hidden
    \/ refresh_tree

Spec == Init /\ [][Next]_vars

\* The selection and its export: clicks, Copy and the 5-second timers.
NextCopy ==
    \/ on_canvas_click
    \/ copy_to_clipboard
    \/ _hide_copied_label

SpecCopy == Init /\ [][NextCopy]_vars

\* The directories that the environment can make fail: src/
FaultCandidates == {3}

\* The filesystem starts or stops failing the listing of a directory with an
\* I/O error (EIO, ESTALE, a directory deleted after is_dir() answered).
fs_fault ==
    /\ \E d \in FaultCandidates :
           io_error' = IF d \in io_error THEN io_error \ {d} ELSE io_error \cup {d}
    /\ last_event' = [op |-> "fs_fault", item |-> RootEntry, new_state |-> TRUE]
    /\ UNCHANGED <<show_hidden_var, exclude_hidden, treeVars, checked, expanded,
                   drawVars, copyVars>>

\* The scans under a filesystem whose listings can fail.  A click on the
\* canvas left empty by a failed scan finds no closest item and returns.
NextScan ==
    \/ on_canvas_click
    \/ on_toggle_hidden
    \/ refresh_tree
    \/ fs_fault

SpecScan == Init /\ [][NextScan]_vars

-----------------------------------------------------------------------------
(* Properties *)

\* The proper ancestors of an item of the current tree, by parent links.
RECURSIVE Ancestors(_)
Ancestors(n) == IF parent[n] = NoParent THEN {} ELSE {parent[n]} \cup Ancestors(parent[n])

\* The proper descendants of an item of the current tree.
Descendants(n) == {m \in Items : n \in Ancestors(m)}

CheckedItems == {n \in Items : checked[n]}

\* C1: invariant I2 - in every reachable state, every checked item is the
\* root or has a checked parent.
C1_I2 == \A n \in Items : checked[n] => (parent[n] = NoParent \/ checked[parent[n]])

\* C2: when a checkbox click turns an item from unchecked to checked, every
\* ancestor of that item up to the root is checked right after the click.
C2_AncestorsCheckedAfterCheck ==
    (last_event.op = "check" /\ last_event.new_state)
        => \A a \in Ancestors(last_event.item) : checked[a]

\* C3: after a checkbox click on a directory D with new value v, D and every
\* descendant of D are checked = v.
C3_CascadeDown ==
    (last_event.op = "check" /\ is_dir[last_event.item])
        => /\ checked[last_event.item] = last_event.new_state
           /\ \A m \in Descendants(last_event.item) : checked[m] = last_event.new_state

\* The whole hidden-included tree was un-checked by a click on the root while
\* src/ and .git/ were collapsed.
C3_Witness ==
    /\ last_event = [op |-> "check", item |-> RootEntry, new_state |-> FALSE]
    /\ Cardinality(Descendants(RootEntry)) = 6
    /\ \E m \in Descendants(RootEntry) : Descendants(m) # {} /\ expanded[m] = FALSE
    /\ CheckedItems = {}

\* C4: a checkbox click that un-checks an item leaves the checked value of
\* every ancestor of that item as it was.
C4_UncheckKeepsAncestors ==
    [][(last_event'.op = "check" /\ ~last_event'.new_state)
           => \A a \in Ancestors(last_event'.item) : checked'[a] = checked[a]]_vars

\* A file at depth 2 was un-checked and both of its ancestors are still checked.
C4_Witness ==
    /\ last_event.op = "check"
    /\ ~last_event.new_state
    /\ ~is_dir[last_event.item]
    /\ Cardinality(Ancestors(last_event.item)) = 2
    /\ \A a \in Ancestors(last_event.item) : checked[a]

\* The items for which the export writes a line.
ExportedItems == {ExportLines(Tree)[i].item : i \in 1..Len(ExportLines(Tree))}

\* C5: in every reachable state the export writes a line for every checked
\* item: the set of exported items equals the set of checked items.
C5_ExportCoversChecked == ExportedItems = CheckedItems

\* C6: after Copy, "Nothing to copy" is shown exactly when no item of the tree
\* is checked; otherwise "Copied!" is shown and the clipboard holds the export.
C6_CopyOutcome ==
    last_event.op = "copy"
        => /\ CheckedItems = {} => copied_label = NOTHING_TO_COPY
           /\ CheckedItems # {} => (copied_label = COPIED /\ clipboard = FinalText(Tree))

\* The items from the root down to n, as a sequence.
RECURSIVE PathTo(_)
PathTo(n) == IF parent[n] = NoParent THEN <<n>> ELSE Append(PathTo(parent[n]), n)

Spaces(k) == [i \in 1..k |-> SPACE]

\* The export of a tree in which exactly file f and its ancestors are checked,
\* with the item at depth k indented by 4 * (k - outdent) spaces.
ChainLines(f, outdent) ==
    LET path == PathTo(f)
    IN [i \in 1..Len(path) |->
           IF i = 1 THEN ResolvedRootPath \o <<SLASH>>
           ELSE Spaces(4 * ((i - 1) - outdent)) \o CONNECTOR_LAST \o <<SPACE>>
                    \o ItemName(Tree, path[i])]

\* Copy was pressed while exactly file f and its ancestors were checked.
CopiedChainOf(f) ==
    /\ last_event.op = "copy"
    /\ ~is_dir[f]
    /\ parent[f] # NoParent
    /\ CheckedItems = {f} \cup Ancestors(f)

\* C7 as stated: the export of a single checked file at depth d has d + 1
\* lines, the depth-1 line without indentation and four more spaces per level.
C7_ChainExportUnindented ==
    \A f \in Items :
        CopiedChainOf(f)
            => /\ Len(ExportLines(Tree)) = Len(PathTo(f))
               /\ clipboard = Join(ChainLines(f, 1))

\* C7 amended: the export of a single checked file at depth d has d + 1 lines:
\* the root path, then the ancestors and the file, each with the "last"
\* connector and indented by four spaces per level of depth (four at depth 1).
C7_ChainExport ==
    \A f \in Items :
        CopiedChainOf(f)
            => /\ Len(ExportLines(Tree)) = Len(PathTo(f))
               /\ clipboard = Join(ChainLines(f, 0))

\* Copy was pressed with only a.py, src/ and the root checked.
C7_Witness ==
    \E f \in Items :
        /\ CopiedChainOf(f)
        /\ Len(PathTo(f)) = 3
        /\ copied_label = COPIED

\* C8: with no item checked the export is empty; with only the root checked it
\* is the single line of the root's resolved path and a trailing separator.
C8_EmptyAndRootOnly ==
    /\ CheckedItems = {} => ExportLines(Tree) = <<>>
    /\ CheckedItems = {RootEntry}
           => LinesOf(ExportLines(Tree)) = <<ResolvedRootPath \o <<SLASH>>>>

\* Copy was pressed with only the root checked.
C8_Witness ==
    /\ CheckedItems = {RootEntry}
    /\ Cardinality(Items) > 1
    /\ last_event.op = "copy"
    /\ clipboard = ResolvedRootPath \o <<SLASH>>

\* n has a checked sibling behind it in its parent's children.
LaterCheckedSibling(n) ==
    LET sibs == children[parent[n]]
    IN \E i, j \in 1..Len(sibs) : i < j /\ sibs[i] = n /\ checked[sibs[j]]

ConnectorOf(n) == IF LaterCheckedSibling(n) THEN CONNECTOR_CONT ELSE CONNECTOR_LAST

\* The prefix built from one segment per non-root ancestor of n.
RECURSIVE PrefixNonRootAncestors(_)
PrefixNonRootAncestors(n) ==
    LET p == parent[n]
    IN IF p = NoParent \/ parent[p] = NoParent THEN <<>>
       ELSE PrefixNonRootAncestors(p)
                \o (IF LaterCheckedSibling(p) THEN PREFIX_CONT ELSE PREFIX_LAST)

\* The line of every exported non-root item is prefix, connector, space, name.
ExportLinesAre(Prefix(_)) ==
    \A i \in 1..Len(ExportLines(Tree)) :
        LET n == ExportLines(Tree)[i].item
        IN n # RootEntry
               => ExportLines(Tree)[i].line
                      = Prefix(n) \o ConnectorOf(n) \o <<SPACE>> \o ItemName(Tree, n)

\* C9 as stated: the connector is "last" iff no later sibling is checked, and
\* the prefix has one segment per non-root ancestor.
C9_ExportGlyphsNonRoot == ExportLinesAre(PrefixNonRootAncestors)

\* The prefix as the export builds it: four spaces for the root, then one segment
\* per non-root ancestor.
PrefixAllAncestors(n) == PREFIX_LAST \o PrefixNonRootAncestors(n)

\* C9 amended: the connector is "last" iff no later sibling is checked, and the
\* prefix has one four-character segment per ancestor, the root included: four
\* spaces for the root and for an ancestor that was the last checked sibling,
\* a bar and three spaces otherwise.
C9_ExportGlyphs == ExportLinesAre(PrefixAllAncestors)

\* Copy was pressed with a.py checked and B.py not (a.py is the last checked
\* sibling without being the last child) under src/, which continues to
\* readme.md.
C9_Witness ==
    /\ last_event.op = "copy"
    /\ clipboard = FinalText(Tree)
    /\ \E n \in ExportedItems :
           /\ Len(PathTo(n)) = 3
           /\ ~LaterCheckedSibling(n)
           /\ children[parent[n]][Len(children[parent[n]])] # n
           /\ LaterCheckedSibling(parent[n])

\* The rows of the layout: the opening brackets, drawn at x = 10.
LayoutRows == SelectSeq(canvas, LAMBDA it : it.x = 10)

\* Pre-order of the whole subtree of n, whatever is expanded.
RECURSIVE Preorder(_)
RECURSIVE PreorderAll(_)
PreorderAll(s) == IF s = <<>> THEN <<>> ELSE Preorder(Head(s)) \o PreorderAll(Tail(s))
Preorder(n) == <<n>> \o PreorderAll(children[n])

\* The items all of whose proper ancestors are expanded, in pre-order.
VisibleItems ==
    SelectSeq(Preorder(RootEntry), LAMBDA n : \A a \in Ancestors(n) : expanded[a] = TRUE)

\* C10: the rows are the pre-order sequence of the items whose proper ancestors
\* are all expanded, row k at y = k * ROW_HEIGHT, and the content height is the
\* number of rows times ROW_HEIGHT.
C10_LayoutRows ==
    /\ Len(LayoutRows) = Len(VisibleItems)
    /\ \A k \in 1..Len(LayoutRows) :
           /\ LayoutRows[k].tags = <<CheckTag(VisibleItems[k])>>
           /\ LayoutRows[k].y = (k - 1) * ROW_HEIGHT
    /\ \A i \in 1..Len(canvas) : \E k \in 1..Len(LayoutRows) : canvas[i].y = LayoutRows[k].y
    /\ current_y = Len(LayoutRows) * ROW_HEIGHT

\* An expand click left src/ expanded and .git/ collapsed in the
\* hidden-included tree: 6 of the 7 items have a row.
C10_Witness ==
    /\ last_event.op = "expand"
    /\ Cardinality(Items) = 7
    /\ Len(LayoutRows) = 6
    /\ \E m \in Items : parent[m] = RootEntry /\ Descendants(m) # {} /\ expanded[m] = FALSE
    /\ \E m \in Items : parent[m] = RootEntry /\ Descendants(m) # {} /\ expanded[m] = TRUE


\* The descendants of n that have a row: all their proper ancestors are expanded.
VisibleDescendants(n) ==
    {m \in Descendants(n) : \A a \in Ancestors(m) : expanded[a] = TRUE}

\* The step is a click that collapses the visible, expanded directory n.
Collapses(n) ==
    /\ last_event'.op = "expand"
    /\ last_event'.item = n
    /\ expanded[n] = TRUE
    /\ expanded'[n] = FALSE

\* The rows in front of the row of n keep their item and their y.
RowsBeforeKept(n) ==
    \A k \in 1..Len(LayoutRows) :
        (\E j \in k + 1..Len(LayoutRows) : LayoutRows[j].tags = <<CheckTag(n)>>)
            => /\ k <= Len(LayoutRows')
               /\ LayoutRows'[k].tags = LayoutRows[k].tags
               /\ LayoutRows'[k].y = LayoutRows[k].y

\* C11 as stated: collapsing a visible expanded directory D removes exactly
\* descendantCount(D) rows, all descendants of D in the tree, and keeps the y
\* of every row in front of D's row.
C11_CollapseRemovesAllDescendants ==
    [][\A n \in Items :
           Collapses(n)
               => /\ Len(LayoutRows') = Len(LayoutRows) - Cardinality(Descendants(n))
                  /\ RowsBeforeKept(n)]_vars

\* C11 amended: collapsing a visible expanded directory D removes exactly the
\* rows of the descendants of D that had a row (those not inside a collapsed
\* sub-directory of D), and keeps the y of every row in front of D's row.
C11_CollapseRemovesVisibleDescendants ==
    [][\A n \in Items :
           Collapses(n)
               => /\ Len(LayoutRows') = Len(LayoutRows) - Cardinality(VisibleDescendants(n))
                  /\ RowsBeforeKept(n)]_vars

\* src/ was just collapsed while rows stand in front of it and behind it.
C11_Witness ==
    /\ last_event.op = "expand"
    /\ last_event.item # RootEntry
    /\ expanded[last_event.item] = FALSE
    /\ Descendants(last_event.item) # {}
    /\ \E k \in 2..Len(LayoutRows) - 1 : LayoutRows[k].tags = <<CheckTag(last_event.item)>>


\* The number of canvas items that carry the tag.
TaggedCount(tag) == Cardinality({i \in 1..Len(canvas) : canvas[i].tags = <<tag>>})

VisibleSet == Range(VisibleItems)

RECURSIVE EntryAncestors(_)
EntryAncestors(e) ==
    IF EntryParent[e] = NoParent THEN {} ELSE {EntryParent[e]} \cup EntryAncestors(EntryParent[e])

\* The entries a scan has to show when the directories in unlistable cannot be
\* listed: the root, and every directory or regular file that passes the
\* hidden filter and lies under listable directories that pass it.
ExpectedItems(xh, unlistable) ==
    {e \in Entries :
        \/ e = RootEntry
        \/ /\ EntryKind[e] \in {"dir", "file"}
           /\ xh => ~is_hidden(e)
           /\ \A a \in EntryAncestors(e) :
                  /\ a \notin unlistable
                  /\ (xh /\ a # RootEntry) => ~is_hidden(a)}

\* The tree is the result of a scan in which exactly the directories in
\* unlistable came out as items without children.
TreeIsScan(unlistable) ==
    /\ Items = ExpectedItems(exclude_hidden, unlistable)
    /\ \A n \in Items :
           /\ Range(children[n]) = {e \in Items : EntryParent[e] = n}
           /\ n \in unlistable => children[n] = <<>>

\* C14 as stated: whatever the reason a directory cannot be listed
\* (PermissionError or another access failure), the rescan does not fail: the
\* directory is in the tree without children and the rest is built normally.
C14_ScanSurvivesAnyListingFailure ==
    last_event.op \in {"refresh", "toggle_hidden"}
        => /\ TreeIsScan(Unreadable \cup io_error)
           /\ canvas # <<>>

\* C14 amended: a directory whose listing raises PermissionError is in the
\* tree without children and all other directories are built normally; a
\* listing that fails with any other error aborts the rescan, which leaves
\* the canvas empty and the previous tree in place.
C14_ScanSurvivesPermissionError ==
    [][last_event'.op \in {"refresh", "toggle_hidden"}
           => IF ExpectedItems(exclude_hidden', Unreadable) \cap io_error # {}
              THEN /\ canvas' = <<>>
                   /\ UNCHANGED <<children, parent, is_dir, checked, expanded>>
              ELSE /\ TreeIsScan(Unreadable)'
                   /\ canvas' # <<>>]_vars

\* A rescan with hidden entries has put the unreadable hooks/ into the tree
\* without children, beside src/ with its two files.
C14_Witness ==
    /\ last_event.op \in {"refresh", "toggle_hidden"}
    /\ \E n \in Items \cap Unreadable : children[n] = <<>> /\ Iterdir(n) # <<>>
    /\ \E n \in Items \ Unreadable : Len(children[n]) = 2 /\ n # RootEntry
    /\ canvas # <<>>


\* C15: in every reachable state the children of every directory are
\* directories first and files after them, each part ascending by lower-cased
\* name.
C15_ChildrenOrder ==
    \A d \in Items :
        \A i, j \in 1..Len(children[d]) :
            i < j =>
                LET a == children[d][i]
                    b == children[d][j]
                IN /\ is_dir[a] \/ ~is_dir[b]
                   /\ is_dir[a] = is_dir[b]
                          => ~StrLess(Lower(EntryName[b]), Lower(EntryName[a]))

\* Clicks after a scan with hidden entries: the root holds two directories in
\* front of a file, and a directory holds a lower-case name in front of an
\* upper-case one that a case-sensitive sort would put first.
C15_Witness ==
    /\ last_event.op \in {"check", "expand"}
    /\ ~exclude_hidden
    /\ \E i \in 1..Len(children[RootEntry]) - 2 :
           /\ is_dir[children[RootEntry][i]]
           /\ is_dir[children[RootEntry][i + 1]]
           /\ ~is_dir[children[RootEntry][i + 2]]
    /\ \E d \in Items : \E i \in 1..Len(children[d]) - 1 :
           StrLess(EntryName[children[d][i + 1]], EntryName[children[d][i]])


\* C16: a click on a directory's arrow or name flips the expanded flag of that
\* directory and changes no checked flag and no other expanded flag; a click
\* on a file's name (a canvas item without tag) changes nothing; the expanded
\* value of a file is None in every state.
C16_ExpandOnlyFlipsOne ==
    /\ [][(last_event'.op = "expand") =>
              (/\ is_dir[last_event'.item]
               /\ expanded' = [expanded EXCEPT
                                 ![last_event'.item] = ~expanded[last_event'.item]]
               /\ checked' = checked
               /\ UNCHANGED <<children, parent, is_dir>>)]_vars
    /\ [][(last_event'.op = "none") =>
              UNCHANGED <<io_error, show_hidden_var, exclude_hidden, children, parent,
                          is_dir, checked, expanded, canvas,
                          item_id_to_tree_item_check, item_id_to_tree_item_expand,
                          current_y, max_x, copied_label, clipboard, timers>>]_vars
    /\ [](\A n \in Items : ~is_dir[n] => expanded[n] = None)

\* .git/ was expanded by a click while hooks/ below it and src/ beside it stay
\* collapsed and some item is unchecked.
C16_Witness ==
    /\ last_event.op = "expand"
    /\ last_event.item # RootEntry
    /\ expanded[last_event.item] = TRUE
    /\ \E n \in Range(children[last_event.item]) : is_dir[n] /\ expanded[n] = FALSE
    /\ \E n \in Items : is_dir[n] /\ parent[n] = RootEntry /\ expanded[n] = FALSE
    /\ CheckedItems # Items


\* The step un-checks file f while f and all its ancestors are checked.
UnchecksFile(f) ==
    /\ last_event'.op = "check"
    /\ last_event'.item = f
    /\ ~last_event'.new_state
    /\ ~is_dir[f]
    /\ checked[f]
    /\ \A a \in Ancestors(f) : checked[a]

\* The step checks file f again right after the step that un-checked it.
RechecksFile(f) ==
    /\ last_event = [op |-> "check", item |-> f, new_state |-> FALSE]
    /\ last_event' = [op |-> "check", item |-> f, new_state |-> TRUE]
    /\ ~is_dir[f]
    /\ \A a \in Ancestors(f) : checked[a]

\* C17: un-checking a file whose ancestors are all checked changes the checked
\* flag of that file only (the ancestors stay checked), and checking it again
\* in the next click changes that flag back and nothing else, so every
\* checked flag has its original value again.
C17_UncheckCheckRoundTrip ==
    [][\A f \in Items :
           /\ UnchecksFile(f) => checked' = [checked EXCEPT ![f] = FALSE]
           /\ RechecksFile(f) => checked' = [checked EXCEPT ![f] = TRUE]]_vars

\* a.py was checked again after it had been un-checked, under checked
\* ancestors and beside an unchecked B.py.
C17_Witness ==
    /\ last_event.op = "check"
    /\ last_event.new_state
    /\ ~is_dir[last_event.item]
    /\ Cardinality(Ancestors(last_event.item)) = 2
    /\ \A a \in Ancestors(last_event.item) : checked[a]
    /\ \E n \in Items : parent[n] = parent[last_event.item] /\ ~checked[n]


RowCanvasItems(k) == SelectSeq(canvas, LAMBDA it : it.y = LayoutRows[k].y)

RowGlyphs(k) == RowCanvasItems(k)[Len(RowCanvasItems(k)) - 2].text

\* The items of the rows with their branch glyphs, in row order.
RowsWithGlyphs ==
    [k \in 1..Len(LayoutRows) |-> [tags |-> LayoutRows[k].tags, glyphs |-> RowGlyphs(k)]]

\* n is the final child in its parent's children (the root's row is drawn
\* with is_last = True).
PositionalLast(n) ==
    parent[n] = NoParent \/ children[parent[n]][Len(children[parent[n]])] = n

RECURSIVE PositionalPrefix(_)
PositionalPrefix(n) ==
    IF parent[n] = NoParent THEN <<>>
    ELSE PositionalPrefix(parent[n])
             \o (IF PositionalLast(parent[n]) THEN PREFIX_LAST ELSE PREFIX_CONT)

\* C19: the branch glyphs of a row depend on sibling positions only - the
\* connector is "last" iff the item is the final child of its parent, the
\* prefix has four spaces under a final child and a bar otherwise - and a
\* checkbox click changes neither the sequence of rows nor the glyphs of a row.
C19_LayoutGlyphsPositional ==
    /\ [](\A k \in 1..Len(VisibleItems) :
              /\ k <= Len(LayoutRows)
              /\ RowGlyphs(k) = PositionalPrefix(VisibleItems[k])
                                    \o (IF PositionalLast(VisibleItems[k])
                                        THEN CONNECTOR_LAST ELSE CONNECTOR_CONT))
    /\ [][(last_event'.op = "check") => (RowsWithGlyphs' = RowsWithGlyphs)]_vars

\* A click has un-checked the last child of the expanded root while an
\* expanded folder with children stands in front of it: the folder keeps the
\* continuing glyph and its children the bar.
C19_Witness ==
    /\ last_event.op = "check"
    /\ ~last_event.new_state
    /\ parent[last_event.item] = RootEntry
    /\ PositionalLast(last_event.item)
    /\ \E k \in 1..Len(LayoutRows) :
           /\ Len(RowGlyphs(k)) = 11
           /\ SubSeq(RowGlyphs(k), 5, 8) = PREFIX_CONT


\* C20: the message shown by a Copy stays for its 5 seconds: the timer step
\* that clears a shown message is the one scheduled by the Copy that showed it.
\* Timers expire in the order they were scheduled and the message on screen is
\* that of the latest Copy, so the expiring timer is the message's own exactly
\* when no other timer is pending.
C20_ClearedByOwnTimer ==
    [][(last_event'.op = "timer" /\ copied_label # "" /\ copied_label' = "")
           => (timers = 1)]_vars

====
